---- MODULE Spec2Model ----
(***************************************************************************)
(* Binary search tree of elementary-algorithms-in-javascript               *)
(* (lib/trees/binary_search_tree.js).  Nodes are objects on a heap; a      *)
(* driver holds one tree (root) and calls the exported functions on it.    *)
(***************************************************************************)
EXTENDS Integers, Sequences, FiniteSets, TLC

\* ---------------------------------------------------------------- bounds
\* keys are drawn from 1..MaxKey
MaxKey == 4
\* insert is called on trees of fewer than MaxNodes nodes
MaxNodes == 4
\* longest array handed to fromList
MaxLen == 3
\* IDs are drawn from 0..MaxId
MaxId == 5
\* longest array of IDs handed to minFree1..4
MaxIds == 4
\* getNumber1, getNumber2 and getNumber3 are called for n up to MaxN
MaxN == 40
\* the call stack holds MaxDepth nested calls of search
MaxDepth == 8

Keys == 1..MaxKey

\* ------------------------------------------------------------ JS values
\* Heap fields hold integers: a node id (1..Len(heap)) or Null in
\* left/right/parent, a number or Undefined in key.  Values that flow
\* through return statements are tagged, because the code returns keys
\* where nodes are expected and the two must not be confused.
Null == 0
Undefined == -1
\* an argument whose typeof is not 'number' (e.g. a string)
NotNumber == -2

NullV == [t |-> "null", v |-> 0]
UndefV == [t |-> "undefined", v |-> 0]
ThrowV == [t |-> "TypeError", v |-> 0]
Num(n) == [t |-> "number", v |-> n]
Ref(i) == IF i = Null THEN NullV ELSE [t |-> "node", v |-> i]
KeyV(k) == IF k = Undefined THEN UndefV ELSE Num(k)

\* typeof value === 'number'
isNumber(value) == value >= 0

\* ToBoolean of a tagged value (no key of the model is 0)
Truthy(val) == val.t = "node" \/ (val.t = "number" /\ val.v # 0)

\* val.f : property read.  A node gives its field; a primitive number has
\* no own key/left/right/parent, so the read gives undefined; reading a
\* property of null or undefined throws TypeError.
Get(h, val, f) ==
  IF val.t = "node"
    THEN IF f = "key" THEN KeyV(h[val.v].key) ELSE Ref(h[val.v][f])
    ELSE IF val.t = "number" THEN UndefV ELSE ThrowV

\* ----------------------------------------------------------------- Node
\* new Node(key, left, right): result record [h, t, thrown]; t is the id
\* of the new object.
Node(h, key, left, right) ==
  IF ~isNumber(key)
    THEN [h |-> h, t |-> Null, thrown |-> TRUE]
    ELSE [h |-> Append(h, [key |-> key, left |-> left, right |-> right,
                           parent |-> Null]),
          t |-> Len(h) + 1, thrown |-> FALSE]

\* --------------------------------------------------------------- insert
\* the while loop of insert going left on an equal key (k <= T.key)
RECURSIVE insertWalk_equalLeft(_, _, _, _)
insertWalk_equalLeft(h, T, k, parent) ==
  IF T # Null
    THEN insertWalk_equalLeft(h, IF k <= h[T].key THEN h[T].left
                                 ELSE h[T].right, k, T)
    ELSE parent

\* the while loop of insert: the last node visited on the way down
RECURSIVE insertWalk(_, _, _, _)
insertWalk(h, T, k, parent) ==
  IF T # Null
    THEN insertWalk(h, IF k < h[T].key THEN h[T].left ELSE h[T].right, k, T)
    ELSE parent

\* insert with the two link branches (lines 231-235) exchanged
insert_linkSwapped(h, T, k) ==
  LET n == Node(h, k, Null, Null) IN
  IF n.thrown THEN n
  ELSE
    LET x == n.t
        parent == insertWalk(n.h, T, k, Null)
        h1 == [n.h EXCEPT ![x].parent = parent]
    IN IF parent = Null
         THEN [h |-> h1, t |-> x, thrown |-> FALSE]
         ELSE IF k < h1[parent].key
           THEN [h |-> [h1 EXCEPT ![parent].right = x], t |-> T, thrown |-> FALSE]
           ELSE [h |-> [h1 EXCEPT ![parent].left = x], t |-> T, thrown |-> FALSE]

\* insert that links the new object first and tests the key last
insert_checksLast(h, T, k) ==
  LET x == Len(h) + 1
      parent == insertWalk(h, T, k, Null)
      h1 == Append(h, [key |-> k, left |-> Null, right |-> Null,
                       parent |-> parent])
      h2 == IF parent = Null THEN h1
            ELSE IF k < h1[parent].key THEN [h1 EXCEPT ![parent].left = x]
            ELSE [h1 EXCEPT ![parent].right = x]
  IN [h |-> h2, t |-> IF parent = Null THEN x ELSE T, thrown |-> ~isNumber(k)]

insert(h, T, k) ==
  LET n == Node(h, k, Null, Null) IN
  IF n.thrown THEN n
  ELSE
    LET x == n.t
        parent == insertWalk(n.h, T, k, Null)
        h1 == [n.h EXCEPT ![x].parent = parent]
    IN IF parent = Null
         THEN [h |-> h1, t |-> x, thrown |-> FALSE]
         ELSE IF k < h1[parent].key
           THEN [h |-> [h1 EXCEPT ![parent].left = x], t |-> T, thrown |-> FALSE]
           ELSE [h |-> [h1 EXCEPT ![parent].right = x], t |-> T, thrown |-> FALSE]

\* ------------------------------------------------------------ traversal
\* fn is a visitor that appends every key it is given to a log; a value
\* that is not a function is NotCallable.
Callable == 1
NotCallable == 0

\* typeof value === 'function'
isFunction(value) == value = Callable

\* inOrderWalk(T, fn): result record [log, thrown], log = the keys passed
\* to fn so far, in call order
\* inOrderWalk calling fn before it walks the left subtree
RECURSIVE inOrderWalk_preOrder(_, _, _, _)
inOrderWalk_preOrder(h, T, fn, log) ==
  IF ~isFunction(fn) THEN [log |-> log, thrown |-> TRUE]
  ELSE IF T # Null
    THEN LET l == inOrderWalk_preOrder(h, h[T].left, fn, Append(log, h[T].key))
         IN inOrderWalk_preOrder(h, h[T].right, fn, l.log)
    ELSE [log |-> log, thrown |-> FALSE]

\* inOrderWalk without the test of fn at entry: a value that is not a
\* function fails when it is first called
RECURSIVE inOrderWalk_checksAtCall(_, _, _, _)
inOrderWalk_checksAtCall(h, T, fn, log) ==
  IF T # Null
    THEN LET l == inOrderWalk_checksAtCall(h, h[T].left, fn, log)
         IN IF l.thrown THEN l
            ELSE IF ~isFunction(fn) THEN [log |-> l.log, thrown |-> TRUE]
            ELSE inOrderWalk_checksAtCall(h, h[T].right, fn,
                                          Append(l.log, h[T].key))
    ELSE [log |-> log, thrown |-> FALSE]

RECURSIVE inOrderWalk(_, _, _, _)
inOrderWalk(h, T, fn, log) ==
  IF ~isFunction(fn) THEN [log |-> log, thrown |-> TRUE]
  ELSE IF T # Null
    THEN LET l == inOrderWalk(h, h[T].left, fn, log)
         IN inOrderWalk(h, h[T].right, fn, Append(l.log, h[T].key))
    ELSE [log |-> log, thrown |-> FALSE]

RECURSIVE toList(_, _)
toList(h, T) ==
  IF T = Null THEN << >>
  ELSE toList(h, h[T].left) \o << h[T].key >> \o toList(h, h[T].right)

\* fromList(X): X.shift() takes the head, the rest is built first and the
\* head is inserted into it.  Result record [h, t, thrown].
\* an argument that is not an array
NotArray == << NotNumber >>

\* '[object Array]' === toStr.call(value)
isArray(value) == value # NotArray

\* fromList stopping one element early (X.length <= 1 as the base case)
RECURSIVE fromList_dropsLast(_, _)
fromList_dropsLast(h, X) ==
  IF ~isArray(X) THEN [h |-> h, t |-> Null, thrown |-> TRUE]
  ELSE IF Len(X) <= 1 THEN [h |-> h, t |-> Null, thrown |-> FALSE]
  ELSE LET first == Head(X)
           rest == fromList_dropsLast(h, Tail(X))
       IN IF rest.thrown THEN rest ELSE insert(rest.h, rest.t, first)

RECURSIVE fromList(_, _)
fromList(h, X) ==
  IF ~isArray(X) THEN [h |-> h, t |-> Null, thrown |-> TRUE]
  ELSE IF Len(X) = 0 THEN [h |-> h, t |-> Null, thrown |-> FALSE]
  ELSE LET first == Head(X)
           rest == fromList(h, Tail(X))
       IN IF rest.thrown THEN rest ELSE insert(rest.h, rest.t, first)

\* the caller's array after fromList(X) without the shifts (as if the
\* function worked on a copy)
fromListShift_onCopy(X) == X

\* the caller's array after fromList(X): every level takes the head off X
\* with X.shift() and hands the same array on (lines 388-389)
RECURSIVE fromListShift(_)
fromListShift(X) ==
  IF ~isArray(X) THEN X
  ELSE IF Len(X) = 0 THEN X
  ELSE fromListShift(Tail(X))

\* -------------------------------------------------------------- queries
\* lookup descending to the wrong side (x > T.key goes left)
RECURSIVE lookup_wrongSide(_, _, _)
lookup_wrongSide(h, T, x) ==
  IF T = Null THEN NullV
  ELSE IF h[T].key = x THEN Ref(T)
  ELSE IF x > h[T].key THEN lookup_wrongSide(h, h[T].left, x)
  ELSE lookup_wrongSide(h, h[T].right, x)

RECURSIVE lookup(_, _, _)
lookup(h, T, x) ==
  IF T = Null THEN NullV
  ELSE IF h[T].key = x THEN Ref(T)
  ELSE IF x < h[T].key THEN lookup(h, h[T].left, x)
  ELSE lookup(h, h[T].right, x)

\* search that stops at the parent of a missing key instead of running
\* off the tree
RECURSIVE search_stopsAtLeaf(_, _, _)
search_stopsAtLeaf(h, T, x) ==
  IF T # Null /\ h[T].key # x
    THEN LET c == IF x < h[T].key THEN h[T].left ELSE h[T].right
         IN IF c = Null THEN Ref(T) ELSE search_stopsAtLeaf(h, c, x)
    ELSE Ref(T)

\* search(T, x): the loop moves T down while T is a node whose key is not
\* x, and returns T
RECURSIVE search(_, _, _)
search(h, T, x) ==
  IF T # Null /\ h[T].key # x
    THEN search(h, IF x < h[T].key THEN h[T].left ELSE h[T].right, x)
    ELSE Ref(T)

\* min and max return the KEY of the extreme node (return T.key)
RECURSIVE min(_, _)
min(h, T) ==
  IF T = Null THEN NullV
  ELSE IF h[T].left = Null THEN KeyV(h[T].key)
  ELSE min(h, h[T].left)

RECURSIVE max(_, _)
max(h, T) ==
  IF T = Null THEN NullV
  ELSE IF h[T].right = Null THEN KeyV(h[T].key)
  ELSE max(h, h[T].right)

\* the while loop of succ: climb while x is the right child of p
RECURSIVE succClimb(_, _, _)
succClimb(h, x, p) ==
  IF Truthy(p) /\ x = Get(h, p, "right")
    THEN succClimb(h, p, Get(h, p, "parent"))
    ELSE p

\* succ returning the parent without climbing
succ_noClimb(h, x) ==
  LET r == Get(h, x, "right") IN
  IF r.t = "TypeError" THEN ThrowV
  ELSE IF Truthy(r) THEN min(h, r.v)
  ELSE Get(h, x, "parent")

\* succ(x), x a tagged value
succ(h, x) ==
  LET r == Get(h, x, "right") IN
  IF r.t = "TypeError" THEN ThrowV
  ELSE IF Truthy(r) THEN min(h, r.v)
  ELSE succClimb(h, x, Get(h, x, "parent"))

RECURSIVE predClimb(_, _, _)
predClimb(h, x, p) ==
  IF Truthy(p) /\ x = Get(h, p, "left")
    THEN predClimb(h, p, Get(h, p, "parent"))
    ELSE p

pred(h, x) ==
  LET l == Get(h, x, "left") IN
  IF l.t = "TypeError" THEN ThrowV
  ELSE IF Truthy(l) THEN max(h, l.v)
  ELSE predClimb(h, x, Get(h, x, "parent"))

\* ------------------------------------------------------------- deletion
\* deleteValue that, for a node with two children, takes the minimum of
\* the right subtree as the new key but leaves it in the right subtree
RECURSIVE deleteValue_keepsMin(_, _, _)
deleteValue_keepsMin(h, T, x) ==
  IF T = Null THEN [h |-> h, t |-> Null, thrown |-> FALSE]
  ELSE IF x < h[T].key
    THEN LET l == deleteValue_keepsMin(h, h[T].left, x)
         IN IF l.thrown THEN l ELSE Node(l.h, h[T].key, l.t, h[T].right)
  ELSE IF x > h[T].key
    THEN LET r == deleteValue_keepsMin(h, h[T].right, x)
         IN IF r.thrown THEN r ELSE Node(r.h, h[T].key, h[T].left, r.t)
  ELSE IF x = h[T].key /\ h[T].left = Null
    THEN [h |-> h, t |-> h[T].right, thrown |-> FALSE]
  ELSE IF x = h[T].key /\ h[T].right = Null
    THEN [h |-> h, t |-> h[T].left, thrown |-> FALSE]
  ELSE LET y == min(h, h[T].right)
       IN Node(h, IF y.t = "number" THEN y.v ELSE NotNumber,
               h[T].left, h[T].right)

\* deleteValue that relinks and rekeys the nodes of T instead of building
\* new ones
RECURSIVE deleteValue_inPlace(_, _, _)
deleteValue_inPlace(h, T, x) ==
  IF T = Null THEN [h |-> h, t |-> Null, thrown |-> FALSE]
  ELSE IF x < h[T].key
    THEN LET l == deleteValue_inPlace(h, h[T].left, x)
         IN [h |-> [l.h EXCEPT ![T].left = l.t], t |-> T, thrown |-> FALSE]
  ELSE IF x > h[T].key
    THEN LET r == deleteValue_inPlace(h, h[T].right, x)
         IN [h |-> [r.h EXCEPT ![T].right = r.t], t |-> T, thrown |-> FALSE]
  ELSE IF x = h[T].key /\ h[T].left = Null
    THEN [h |-> h, t |-> h[T].right, thrown |-> FALSE]
  ELSE IF x = h[T].key /\ h[T].right = Null
    THEN [h |-> h, t |-> h[T].left, thrown |-> FALSE]
  ELSE LET y == min(h, h[T].right)
           r == deleteValue_inPlace(h, h[T].right, y.v)
       IN [h |-> [r.h EXCEPT ![T].key = y.v, ![T].right = r.t],
           t |-> T, thrown |-> FALSE]

\* deleteValue(T, x): rebuilds the path to x out of new Node objects.
\* Result record [h, t, thrown].
RECURSIVE deleteValue(_, _, _)
deleteValue(h, T, x) ==
  IF T = Null THEN [h |-> h, t |-> Null, thrown |-> FALSE]
  ELSE IF x < h[T].key
    THEN LET l == deleteValue(h, h[T].left, x)
         IN IF l.thrown THEN l ELSE Node(l.h, h[T].key, l.t, h[T].right)
  ELSE IF x > h[T].key
    THEN LET r == deleteValue(h, h[T].right, x)
         IN IF r.thrown THEN r ELSE Node(r.h, h[T].key, h[T].left, r.t)
  ELSE IF x = h[T].key /\ h[T].left = Null
    THEN [h |-> h, t |-> h[T].right, thrown |-> FALSE]
  ELSE IF x = h[T].key /\ h[T].right = Null
    THEN [h |-> h, t |-> h[T].left, thrown |-> FALSE]
  ELSE LET y == min(h, h[T].right)
           r == deleteValue(h, h[T].right, y.v)
       IN IF r.thrown THEN r
          ELSE Node(r.h, IF y.t = "number" THEN y.v ELSE NotNumber,
                    h[T].left, r.t)

\* what a heap field holds after  field = val
Store(val) ==
  IF val.t \in {"node", "number"} THEN val.v
  ELSE IF val.t = "null" THEN Null ELSE Undefined

\* the tail of deleteNode always linking the child as the parent's left
splice_alwaysLeft(h, T, x1, x, parent) ==
  LET h1 == IF x # Null THEN [h EXCEPT ![x].parent = parent] ELSE h
  IN IF parent = Null
       THEN [h |-> h1, t |-> x, thrown |-> FALSE]
       ELSE [h |-> [h1 EXCEPT ![parent].left = x], t |-> T, thrown |-> FALSE]

\* the tail of deleteNode (lines 748-763): x1 is the node to remove, x its
\* only child or Null, parent the parent of x1
splice(h, T, x1, x, parent) ==
  LET h1 == IF x # Null THEN [h EXCEPT ![x].parent = parent] ELSE h
  IN IF parent = Null
       THEN [h |-> h1, t |-> x, thrown |-> FALSE]
       ELSE IF h1[parent].left = x1
         THEN [h |-> [h1 EXCEPT ![parent].left = x], t |-> T, thrown |-> FALSE]
         ELSE [h |-> [h1 EXCEPT ![parent].right = x], t |-> T, thrown |-> FALSE]

\* deleteNode(T, x), x a node id or Null.  In the two-children branch y is
\* what min returns, and y.key, y.parent, y.right are property reads on it.
deleteNode(h, T, x) ==
  IF x = Null THEN [h |-> h, t |-> T, thrown |-> FALSE]
  ELSE IF h[x].left = Null THEN splice(h, T, x, h[x].right, h[x].parent)
  ELSE IF h[x].right = Null THEN splice(h, T, x, h[x].left, h[x].parent)
  ELSE
    LET y == min(h, h[x].right)
        ykey == Get(h, y, "key")
        h1 == [h EXCEPT ![x].key = Store(ykey)]
        yparent == Get(h1, y, "parent")
        yright == Get(h1, y, "right")
    IN IF ykey.t = "TypeError" THEN [h |-> h, t |-> T, thrown |-> TRUE]
       ELSE IF yparent.t = "TypeError" THEN [h |-> h1, t |-> T, thrown |-> TRUE]
       ELSE IF yparent # Ref(x)
         THEN \* y.parent.left = y.right
              IF yparent.t = "node"
                THEN [h |-> [h1 EXCEPT ![yparent.v].left = Store(yright)],
                      t |-> T, thrown |-> FALSE]
                ELSE [h |-> h1, t |-> T, thrown |-> TRUE]
         ELSE [h |-> [h1 EXCEPT ![x].right = Store(yright)],
               t |-> T, thrown |-> FALSE]

\* ------------------------------------------------- smallest free ID
\* (preface/smallest_free_id.js)  Arrays are sequences; the JS element
\* A[i] is A[i + 1] here.  Results are tagged values.

\* A.indexOf(v): the first index holding v, or -1
indexOf(A, v) ==
  LET S == { j \in 1..Len(A) : A[j] = v }
  IN IF S = {} THEN -1 ELSE (CHOOSE j \in S : \A k \in S : j <= k) - 1

\* the loop of minFree1 from i on
RECURSIVE minFree1Loop(_, _)
minFree1Loop(A, i) ==
  IF indexOf(A, i) = -1 THEN i ELSE minFree1Loop(A, i + 1)

minFree1(A) ==
  IF ~isArray(A) THEN ThrowV ELSE Num(minFree1Loop(A, 0))

\* the second loop of minFree2: F after A[i], ..., A[n - 1] were scanned;
\* F is the flag array as a function on 0..n
RECURSIVE minFree2Mark(_, _, _, _)
minFree2Mark(F, A, n, i) ==
  IF i < n
    THEN minFree2Mark(IF A[i + 1] < n THEN [F EXCEPT ![A[i + 1]] = TRUE]
                      ELSE F, A, n, i + 1)
    ELSE F

\* the third loop of minFree2 from i on, over flags 0..last; the function
\* ends without a return statement when no flag is false
RECURSIVE minFree2Find(_, _, _)
minFree2Find(F, last, i) ==
  IF i <= last
    THEN IF F[i] = FALSE THEN Num(i) ELSE minFree2Find(F, last, i + 1)
    ELSE UndefV

\* minFree2 with n flags instead of n + 1
minFree2_nFlags(A) ==
  IF ~isArray(A) THEN ThrowV
  ELSE LET n == Len(A)
           F == minFree2Mark([i \in 0..n |-> FALSE], A, n, 0)
       IN minFree2Find(F, n - 1, 0)

minFree2(A) ==
  IF ~isArray(A) THEN ThrowV
  ELSE LET n == Len(A)
           F == minFree2Mark([i \in 0..n |-> FALSE], A, n, 0)
       IN minFree2Find(F, n, 0)

\* the inner function search(A, l, u) of minFree3: the value it leaves in
\* smallestID
RECURSIVE minFree3Search(_, _, _)
minFree3Search(A, l, u) ==
  IF Len(A) = 0 THEN l
  ELSE LET m == (l + u) \div 2
           A1 == SelectSeq(A, LAMBDA e : e <= m)
           A2 == SelectSeq(A, LAMBDA e : ~(e <= m))
       IN IF Len(A1) = m - l + 1
            THEN minFree3Search(A2, m + 1, u)
            ELSE minFree3Search(A1, l, m)

minFree3(A) ==
  IF ~isArray(A) THEN ThrowV ELSE Num(minFree3Search(A, 0, Len(A)))

\* swap(i, j) of minFree4 (JS indices)
swap(A, i, j) == [A EXCEPT ![j + 1] = A[i + 1], ![i + 1] = A[j + 1]]

\* the for loop of minFree4 from right on: [A, left] when it ends
RECURSIVE minFree4Partition(_, _, _, _, _)
minFree4Partition(A, n, m, left, right) ==
  IF right < n
    THEN IF A[right + 1] <= m
           THEN minFree4Partition(swap(A, left, right), n, m, left + 1,
                                  right + 1)
           ELSE minFree4Partition(A, n, m, left, right + 1)
    ELSE [A |-> A, left |-> left]

\* the while loop of minFree4.  A is the array the variable A refers to;
\* it is the caller's array until A = A.slice(left) makes it a copy
\* (own).  Result [ret, arr]: the value returned and the caller's array
\* as the swaps left it.
RECURSIVE minFree4Loop(_, _, _, _, _, _)
minFree4Loop(A, n, l, u, arr, own) ==
  IF n = 0 THEN [ret |-> Num(l), arr |-> arr]
  ELSE LET m == (l + u) \div 2
           p == minFree4Partition(A, n, m, 0, 0)
           arr1 == IF own THEN arr ELSE p.A
       IN IF p.left = m - l + 1
            THEN minFree4Loop(SubSeq(p.A, p.left + 1, Len(p.A)), n - p.left,
                              m + 1, u, arr1, TRUE)
            ELSE minFree4Loop(p.A, p.left, l, m, arr1, own)

minFree4(A) ==
  IF ~isArray(A) THEN [ret |-> ThrowV, arr |-> A]
  ELSE minFree4Loop(A, Len(A), 0, Len(A) - 1, A, FALSE)

\* The same two functions followed call by call and pass by pass.  A
\* frame is a record [pc, A, n, l, u, m, left, depth, own]: the position,
\* the local variables, the number of nested calls of search, and
\* whether A is a copy (own) or still the caller's array.

\* what a call that the engine ends with "Maximum call stack size
\* exceeded" throws
StackOverflowV == [t |-> "RangeError", v |-> 0]

\* search recursing into (A1, l, u) instead of (A1, l, m)
minFree3SearchStep_keepsUpper(f) ==
  IF Len(f.A) = 0 THEN [f EXCEPT !.pc = "return"]
  ELSE LET m == (f.l + f.u) \div 2
           A1 == SelectSeq(f.A, LAMBDA e : e <= m)
           A2 == SelectSeq(f.A, LAMBDA e : ~(e <= m))
       IN IF f.depth >= MaxDepth THEN [f EXCEPT !.pc = "RangeError"]
          ELSE IF Len(A1) = m - f.l + 1
            THEN [f EXCEPT !.A = A2, !.l = m + 1, !.depth = f.depth + 1]
            ELSE [f EXCEPT !.A = A1, !.depth = f.depth + 1]

\* one call of search(A, l, u) (lines 457-480): it sets smallestID = l and
\* every pending call returns, or it calls search again; the call is not
\* a tail call, so it needs a stack frame more, and the engine throws
\* RangeError when the stack is full
minFree3SearchStep(f) ==
  IF Len(f.A) = 0 THEN [f EXCEPT !.pc = "return"]
  ELSE LET m == (f.l + f.u) \div 2
           A1 == SelectSeq(f.A, LAMBDA e : e <= m)
           A2 == SelectSeq(f.A, LAMBDA e : ~(e <= m))
       IN IF f.depth >= MaxDepth THEN [f EXCEPT !.pc = "RangeError"]
          ELSE IF Len(A1) = m - f.l + 1
            THEN [f EXCEPT !.A = A2, !.l = m + 1, !.depth = f.depth + 1]
            ELSE [f EXCEPT !.A = A1, !.u = m, !.depth = f.depth + 1]

\* the head of a pass of the while loop of minFree4 (lines 527-536): the
\* test of n, m and the for loop with its swaps; or the return when n
\* is 0
minFree4WhileStep(f) ==
  IF f.n = 0 THEN [f EXCEPT !.pc = "return"]
  ELSE LET m == (f.l + f.u) \div 2
           p == minFree4Partition(f.A, f.n, m, 0, 0)
       IN [f EXCEPT !.pc = "if", !.m = m, !.A = p.A, !.left = p.left]

\* the rest of the pass (lines 537-544): the if statement
minFree4IfStep(f) ==
  IF f.left = f.m - f.l + 1
    THEN [f EXCEPT !.pc = "while",
                   !.A = SubSeq(f.A, f.left + 1, Len(f.A)),
                   !.n = f.n - f.left, !.l = f.m + 1, !.own = TRUE]
    ELSE [f EXCEPT !.pc = "while", !.n = f.left, !.u = f.m]

\* ---------------------------------------------------- number puzzle
\* (preface/number_puzzle.js)  The values x and the queue elements are JS
\* Numbers: IEEE 754 doubles, whose arithmetic is exact up to 53
\* significant bits and rounds to nearest, ties to even, beyond.  A value
\* is a non-negative integer below 2^63 written as three limbs
\* << l2, l1, l0 >> = l2 * Limb^2 + l1 * Limb + l0.  The counters n and i
\* stay far below 2^53 and are plain integers.
Limb == 2097152
Precision == 53

Small(k) == << 0, 0, k >>

\* the integers k * x and x + k, exactly (k below 2^10)
Times(k, x) ==
  LET p0 == k * x[3]
      p1 == k * x[2] + p0 \div Limb
      p2 == k * x[1] + p1 \div Limb
  IN << p2, p1 % Limb, p0 % Limb >>

Plus(x, k) ==
  LET s0 == x[3] + k
      s1 == x[2] + s0 \div Limb
      s2 == x[1] + s1 \div Limb
  IN << s2, s1 % Limb, s0 % Limb >>

\* x < y
Less(x, y) ==
  \/ x[1] < y[1]
  \/ x[1] = y[1] /\ x[2] < y[2]
  \/ x[1] = y[1] /\ x[2] = y[2] /\ x[3] < y[3]

\* x % k, and x / k for a k that divides x (the quotient is then exact)
Rem(x, k) ==
  LET r1 == x[1] % k
      r2 == (r1 * Limb + x[2]) % k
  IN (r2 * Limb + x[3]) % k

Quot(x, k) ==
  LET t2 == (x[1] % k) * Limb + x[2]
      t3 == (t2 % k) * Limb + x[3]
  IN << x[1] \div k, t2 \div k, t3 \div k >>

\* number of significant bits
RECURSIVE Bits(_)
Bits(v) == IF v = 0 THEN 0 ELSE 1 + Bits(v \div 2)

BitLen(x) ==
  IF x[1] > 0 THEN 42 + Bits(x[1])
  ELSE IF x[2] > 0 THEN 21 + Bits(x[2])
  ELSE Bits(x[3])

\* the double nearest to the integer x (ties to even)
Round(x) ==
  LET s == BitLen(x) - Precision IN
  IF s <= 0 THEN x
  ELSE LET unit == 2 ^ s
           rem == x[3] % unit
           down == << x[1], x[2], x[3] - rem >>
           up == Plus(down, unit)
       IN IF 2 * rem < unit THEN down
          ELSE IF 2 * rem > unit THEN up
          ELSE IF (down[3] \div unit) % 2 = 0 THEN down ELSE up

\* the JS expressions k * x and x + 1
Mul(k, x) == Round(Times(k, x))
Inc(x) == Round(Plus(x, 1))

\* a Number as a returned value
Dbl(x) == [t |-> "number", v |-> x]

\* one of the three loops of valid: divide by k while x % k === 0
RECURSIVE validLoop(_, _)
validLoop(x, k) ==
  IF Rem(x, k) = 0 THEN validLoop(Quot(x, k), k) ELSE x

valid(x) == validLoop(validLoop(validLoop(x, 2), 3), 5) = Small(1)

\* One pass through the body of the while (true) loop of getNumber1;
\* s = [n, x, i, returned].  After return x nothing changes any more.
getNumber1Step(s) ==
  IF s.returned THEN s
  ELSE IF valid(s.x)
    THEN IF s.i + 1 = s.n
           THEN [s EXCEPT !.i = s.i + 1, !.returned = TRUE]
           ELSE [s EXCEPT !.i = s.i + 1, !.x = Inc(s.x)]
    ELSE [s EXCEPT !.x = Inc(s.x)]

\* k passes, one after the other: the first half of them and, unless the
\* function has returned by then, the rest
RECURSIVE getNumber1Loop(_, _)
getNumber1Loop(s, k) ==
  IF k = 0 THEN s
  ELSE IF k = 1 THEN getNumber1Step(s)
  ELSE LET half == getNumber1Loop(s, k \div 2)
       IN IF half.returned THEN half ELSE getNumber1Loop(half, k - k \div 2)

\* the loop runs until the function returns: k passes, then 2k more, ...
RECURSIVE getNumber1Run(_, _)
getNumber1Run(s, k) ==
  LET a == getNumber1Loop(s, k)
  IN IF a.returned THEN a ELSE getNumber1Run(a, 2 * k)

getNumber1(n) ==
  IF ~isNumber(n) \/ n < 1 THEN ThrowV
  ELSE Dbl(getNumber1Run([n |-> n, x |-> Small(1), i |-> 0,
                          returned |-> FALSE], 1).x)

\* the while loop of uniqueEnqueue from i on (JS index): where it stops
RECURSIVE uniqueEnqueueScan(_, _, _)
uniqueEnqueueScan(Q, x, i) ==
  IF i < Len(Q) /\ Less(Q[i + 1], x)
    THEN uniqueEnqueueScan(Q, x, i + 1)
    ELSE i

\* uniqueEnqueue(Q, x): Q afterwards; insert(Q, i, x) moves the elements
\* from i on up by one and stores x at i
uniqueEnqueue(Q, x) ==
  LET i == uniqueEnqueueScan(Q, x, 0) IN
  IF i < Len(Q) /\ x = Q[i + 1] THEN Q
  ELSE SubSeq(Q, 1, i) \o << x >> \o SubSeq(Q, i + 1, Len(Q))

\* One test of the loop condition of getNumber2 (n > 0) and, if it
\* holds, one pass through the body; s = [n, x, Q].  A loop that has
\* ended stays as it is.
getNumber2Step(s) ==
  IF s.n > 0
    THEN LET x == Head(s.Q)
             Qa == uniqueEnqueue(Tail(s.Q), Mul(2, x))
             Qb == uniqueEnqueue(Qa, Mul(3, x))
             Qc == uniqueEnqueue(Qb, Mul(5, x))
         IN [n |-> s.n - 1, x |-> x, Q |-> Qc]
    ELSE s

\* k steps of the loop, one after the other: the first half of them and,
\* unless the loop has ended by then, the rest
RECURSIVE getNumber2Loop(_, _)
getNumber2Loop(s, k) ==
  IF k = 0 THEN s
  ELSE IF k = 1 THEN getNumber2Step(s)
  ELSE LET half == getNumber2Loop(s, k \div 2)
       IN IF half.n > 0 THEN getNumber2Loop(half, k - k \div 2) ELSE half

\* n is lowered by one in every pass, so the loop has ended after n steps
getNumber2(n) ==
  IF ~isNumber(n) \/ n < 1 THEN ThrowV
  ELSE Dbl(getNumber2Loop([n |-> n, x |-> Small(0), Q |-> << Small(1) >>],
                          n).x)

\* Math.min of three Numbers
Min3(a, b, c) ==
  LET ab == IF Less(b, a) THEN b ELSE a
  IN IF Less(c, ab) THEN c ELSE ab

\* One test of the loop condition of getNumber3 (n > 1) and, if it
\* holds, one pass through the body; s = [n, x, Q2, Q3, Q5].
getNumber3Step(s) ==
  IF s.n > 1
    THEN LET x == Min3(Head(s.Q2), Head(s.Q3), Head(s.Q5)) IN
         IF x = Head(s.Q2)
           THEN [n |-> s.n - 1, x |-> x,
                 Q2 |-> Append(Tail(s.Q2), Mul(2, x)),
                 Q3 |-> Append(s.Q3, Mul(3, x)),
                 Q5 |-> Append(s.Q5, Mul(5, x))]
         ELSE IF x = Head(s.Q3)
           THEN [n |-> s.n - 1, x |-> x,
                 Q2 |-> s.Q2,
                 Q3 |-> Append(Tail(s.Q3), Mul(3, x)),
                 Q5 |-> Append(s.Q5, Mul(5, x))]
         ELSE [n |-> s.n - 1, x |-> x,
               Q2 |-> s.Q2,
               Q3 |-> s.Q3,
               Q5 |-> Append(Tail(s.Q5), Mul(5, x))]
    ELSE s

RECURSIVE getNumber3Loop(_, _)
getNumber3Loop(s, k) ==
  IF k = 0 THEN s
  ELSE IF k = 1 THEN getNumber3Step(s)
  ELSE LET half == getNumber3Loop(s, k \div 2)
       IN IF half.n > 1 THEN getNumber3Loop(half, k - k \div 2) ELSE half

getNumber3(n) ==
  IF ~isNumber(n) \/ n < 1 THEN ThrowV
  ELSE IF n = 1 THEN Dbl(Small(1))
  ELSE Dbl(getNumber3Loop([n |-> n, x |-> Small(0),
                           Q2 |-> << Small(2) >>,
                           Q3 |-> << Small(3) >>,
                           Q5 |-> << Small(5) >>], n).x)

\* ---------------------------------------------------------------- state
VARIABLES
  heap,     \* the objects as the last call left them: heap[i] = the Node
            \* with id i
  root,     \* the tree the driver holds: a node id or Null
  cur,      \* [h, t]: the objects the driver can still reach and its root
            \* among them; the next call starts from these
  list,     \* the array the driver holds (fromList shifts it empty)
  inserted, \* keys the driver has inserted into root, in call order, as
            \* long as insert is the only call that changed the tree
  spliced,  \* TRUE once deleteNode was called with a node
  op,       \* name of the last call
  arg,      \* its arguments
  ret,      \* the value it returned (tagged), ThrowV if it threw
  out,      \* the list it returned (toList) or the keys it passed to fn
  thrown,   \* the last call threw
  pre,      \* heap and root as they were when the last call started, and
            \* whether insert alone had built that tree
  frame     \* where a call that is followed step by step stands: its
            \* position pc and its local variables

vars ==
  << heap, root, cur, list, inserted, spliced, op, arg, ret, out, thrown, pre,
     frame >>

NoArg == [key |-> 0, node |-> Null, list |-> << >>, fn |-> 1]

\* no call is in progress
Idle ==
  [pc |-> "idle", A |-> << >>, n |-> 0, l |-> 0, u |-> 0, m |-> 0,
   left |-> 0, depth |-> 0, own |-> FALSE]

\* ids of the nodes of the tree rooted at T (left/right links)
RECURSIVE NodesOf(_, _)
NodesOf(h, T) ==
  IF T = Null THEN {}
  ELSE {T} \cup NodesOf(h, h[T].left) \cup NodesOf(h, h[T].right)

Lists == UNION { [1..n -> Keys] : n \in 0..MaxLen }

\* When a call starts, the only objects left are those the driver can
\* still reach, i.e. the nodes of root: the result of the previous call
\* and a node deleteNode spliced out are no longer referenced.  Ids are
\* names of the model, so the survivors are renumbered 1..n in creation
\* order.

\* new id of object i when only the objects in R survive
Rank(R, i) ==
  IF i = Null THEN Null ELSE Cardinality({ j \in R : j <= i })

\* the objects 1..i of h that are in R, renumbered
RECURSIVE Survivors(_, _, _)
Survivors(h, R, i) ==
  IF i = 0 THEN << >>
  ELSE IF i \in R
    THEN Append(Survivors(h, R, i - 1),
                [key |-> h[i].key,
                 left |-> Rank(R, h[i].left),
                 right |-> Rank(R, h[i].right),
                 parent |-> Rank(R, h[i].parent)])
    ELSE Survivors(h, R, i - 1)

\* what is left of heap h for a driver holding T
Live(h, T) ==
  LET R == NodesOf(h, T) IN
  IF Cardinality(R) = Len(h)
    THEN [h |-> h, t |-> T]
    ELSE [h |-> Survivors(h, R, Len(h)), t |-> Rank(R, T)]

Init ==
  /\ heap = << >>
  /\ root = Null
  /\ cur = [h |-> << >>, t |-> Null]
  /\ list = << >>
  /\ inserted = << >>
  /\ spliced = FALSE
  /\ op = "none"
  /\ arg = NoArg
  /\ ret = UndefV
  /\ out = << >>
  /\ thrown = FALSE
  /\ pre = [heap |-> << >>, root |-> Null, built |-> TRUE]
  /\ frame = Idle

\* a call that threw ends the run: nothing was returned to continue with
Running == ~thrown

\* deleteValue and the queries leave the driver's objects (cur) as they
\* are, so one of them after another reaches nothing that it does not
\* reach right after the call that last changed the tree; the driver
\* makes them there.
AfterChange == op \in {"none", "insert", "deleteNode", "fromList"}

\* what every call records
Call(name, a) ==
  /\ op' = name
  /\ arg' = a
  /\ pre' = [heap |-> cur.h, root |-> cur.t, built |-> ~spliced]

\* T = insert(T, k)
Insert(k) ==
  /\ Running
  /\ Len(cur.h) < MaxNodes
  /\ Call("insert", [NoArg EXCEPT !.key = k])
  /\ LET r == insert(cur.h, cur.t, k)
         T == IF r.thrown THEN cur.t ELSE r.t
     IN /\ heap' = r.h
        /\ root' = T
        /\ cur' = Live(r.h, T)
        /\ inserted' = IF r.thrown \/ spliced THEN inserted
                       ELSE Append(inserted, k)
        /\ ret' = IF r.thrown THEN ThrowV ELSE Ref(r.t)
        /\ thrown' = r.thrown
  /\ out' = << >>
  /\ UNCHANGED << list, spliced, frame >>

\* T = deleteNode(T, x)
DeleteNode(x) ==
  /\ Running
  /\ x <= Len(cur.h)
  /\ Call("deleteNode", [NoArg EXCEPT !.node = x])
  /\ LET r == deleteNode(cur.h, cur.t, x)
         T == IF r.thrown THEN cur.t ELSE r.t
     IN /\ heap' = r.h
        /\ root' = T
        /\ cur' = Live(r.h, T)
        /\ ret' = IF r.thrown THEN ThrowV ELSE Ref(r.t)
        /\ thrown' = r.thrown
  /\ spliced' = (spliced \/ x # Null)
  /\ inserted' = IF x # Null THEN << >> ELSE inserted
  /\ out' = << >>
  /\ UNCHANGED << list, frame >>

\* deleteValue(T, k); the driver keeps T
DeleteValue(k) ==
  /\ Running
  /\ AfterChange
  /\ Call("deleteValue", [NoArg EXCEPT !.key = k])
  /\ LET r == deleteValue(cur.h, cur.t, k)
     IN /\ heap' = r.h
        /\ ret' = IF r.thrown THEN ThrowV ELSE Ref(r.t)
        /\ thrown' = r.thrown
  /\ root' = cur.t
  /\ out' = << >>
  /\ UNCHANGED << cur, list, inserted, spliced, frame >>

\* T = fromList(list): every X.shift() removes an element of the driver's
\* array, so the array is empty when the call returns; a value that is
\* not an array is rejected before anything is touched
FromList ==
  /\ Running
  /\ Call("fromList", [NoArg EXCEPT !.list = list])
  /\ LET r == fromList(cur.h, list)
         T == IF r.thrown THEN cur.t ELSE r.t
     IN /\ heap' = r.h
        /\ root' = T
        /\ cur' = Live(r.h, T)
        /\ ret' = IF r.thrown THEN ThrowV ELSE Ref(r.t)
        /\ thrown' = r.thrown
  /\ list' = fromListShift(list)
  /\ out' = << >>
  /\ UNCHANGED << inserted, spliced, frame >>

\* a call that reads the tree and returns v (a tagged value) and list l
Query(name, a, v, l) ==
  /\ Running
  /\ AfterChange
  /\ Call(name, a)
  /\ ret' = v
  /\ out' = l
  /\ thrown' = (v = ThrowV)
  /\ heap' = cur.h
  /\ root' = cur.t
  /\ UNCHANGED << cur, list, inserted, spliced, frame >>

InOrderWalk(fn) ==
  LET w == inOrderWalk(cur.h, cur.t, fn, << >>)
  IN Query("inOrderWalk", [NoArg EXCEPT !.fn = fn],
           IF w.thrown THEN ThrowV ELSE UndefV, w.log)

ToList == Query("toList", NoArg, UndefV, toList(cur.h, cur.t))

Lookup(k) ==
  Query("lookup", [NoArg EXCEPT !.key = k], lookup(cur.h, cur.t, k), << >>)

Search(k) ==
  Query("search", [NoArg EXCEPT !.key = k], search(cur.h, cur.t, k), << >>)

Min == Query("min", NoArg, min(cur.h, cur.t), << >>)

Max == Query("max", NoArg, max(cur.h, cur.t), << >>)

Succ(x) ==
  /\ x <= Len(cur.h)
  /\ Query("succ", [NoArg EXCEPT !.node = x], succ(cur.h, Ref(x)), << >>)

Pred(x) ==
  /\ x <= Len(cur.h)
  /\ Query("pred", [NoArg EXCEPT !.node = x], pred(cur.h, Ref(x)), << >>)

Next ==
  \/ \E k \in Keys \cup {NotNumber} : Insert(k)
  \/ \E x \in 0..MaxNodes : DeleteNode(x)
  \/ \E k \in Keys : DeleteValue(k)
  \/ \E fn \in {Callable, NotCallable} : InOrderWalk(fn)
  \/ ToList
  \/ \E k \in Keys : Lookup(k)
  \/ \E k \in Keys : Search(k)
  \/ Min
  \/ Max
  \/ \E x \in 1..MaxNodes : Succ(x)
  \/ \E x \in 1..MaxNodes : Pred(x)

Spec == Init /\ [][Next]_vars

\* The driver starts with an array and builds its tree with fromList.
InitList ==
  /\ heap = << >>
  /\ root = Null
  /\ cur = [h |-> << >>, t |-> Null]
  /\ list \in Lists \cup {NotArray}
  /\ inserted = << >>
  /\ spliced = FALSE
  /\ op = "none"
  /\ arg = NoArg
  /\ ret = UndefV
  /\ out = << >>
  /\ thrown = FALSE
  /\ pre = [heap |-> << >>, root |-> Null, built |-> TRUE]
  /\ frame = Idle

NextList ==
  \/ FromList
  \/ ToList
  \/ \E fn \in {Callable, NotCallable} : InOrderWalk(fn)

SpecList == InitList /\ [][NextList]_vars

\* The driver holds an array of IDs in use and asks for the smallest
\* free one.
Ids == 0..MaxId

\* the list of the test script
TestList == << 18, 4, 8, 9, 16, 1, 14, 7, 19, 3, 0, 5, 2, 11, 6 >>

\* arrays of pairwise distinct IDs
IdArrays ==
  { A \in UNION { [1..n -> Ids] : n \in 0..MaxIds } :
      \A i, j \in 1..Len(A) : i # j => A[i] # A[j] }
  \cup {TestList}

\* a call on the driver's array that returns v and leaves the array as A
FreeCall(name, v, A) ==
  /\ Running
  /\ Call(name, [NoArg EXCEPT !.list = list])
  /\ ret' = v
  /\ thrown' = (v = ThrowV)
  /\ list' = A
  /\ UNCHANGED << heap, root, cur, inserted, spliced, out, frame >>

MinFree1 == FreeCall("minFree1", minFree1(list), list)

MinFree2 == FreeCall("minFree2", minFree2(list), list)

MinFree3 == FreeCall("minFree3", minFree3(list), list)

MinFree4 ==
  LET r == minFree4(list) IN FreeCall("minFree4", r.ret, r.arr)

InitFree ==
  /\ heap = << >>
  /\ root = Null
  /\ cur = [h |-> << >>, t |-> Null]
  /\ list \in IdArrays \cup {NotArray}
  /\ inserted = << >>
  /\ spliced = FALSE
  /\ op = "none"
  /\ arg = NoArg
  /\ ret = UndefV
  /\ out = << >>
  /\ thrown = FALSE
  /\ pre = [heap |-> << >>, root |-> Null, built |-> TRUE]
  /\ frame = Idle

NextFree ==
  \/ MinFree1
  \/ MinFree2
  \/ MinFree3
  \/ MinFree4

SpecFree == InitFree /\ [][NextFree]_vars

\* The driver holds an array of IDs in which a value may occur more than
\* once, and its calls of minFree3 and minFree4 are followed step by step.
IdLists == UNION { [1..n -> Ids] : n \in 0..MaxIds }

Done == [Idle EXCEPT !.pc = "done"]

\* minFree3(list) up to the first call of search, search(A, 0, A.length)
MinFree3Call ==
  /\ Running
  /\ frame.pc \in {"idle", "done"}
  /\ Call("minFree3", [NoArg EXCEPT !.list = list])
  /\ IF isArray(list)
       THEN /\ frame' = [Idle EXCEPT !.pc = "search", !.A = list,
                                     !.n = Len(list), !.u = Len(list),
                                     !.depth = 1]
            /\ ret' = UndefV
            /\ thrown' = FALSE
       ELSE /\ frame' = Done
            /\ ret' = ThrowV
            /\ thrown' = TRUE
  /\ UNCHANGED << heap, root, cur, list, inserted, spliced, out >>

\* the next call of search, or return smallestID
MinFree3Search ==
  /\ frame.pc = "search"
  /\ LET f == minFree3SearchStep(frame)
     IN /\ frame' = IF f.pc = "search" THEN f ELSE Done
        /\ ret' = IF f.pc = "return" THEN Num(f.l)
                  ELSE IF f.pc = "RangeError" THEN StackOverflowV
                  ELSE ret
        /\ thrown' = (f.pc = "RangeError")
  /\ UNCHANGED << heap, root, cur, list, inserted, spliced, op, arg, out,
                  pre >>

\* minFree4(list) up to the while loop
MinFree4Call ==
  /\ Running
  /\ frame.pc \in {"idle", "done"}
  /\ Call("minFree4", [NoArg EXCEPT !.list = list])
  /\ IF isArray(list)
       THEN /\ frame' = [Idle EXCEPT !.pc = "while", !.A = list,
                                     !.n = Len(list), !.u = Len(list) - 1]
            /\ ret' = UndefV
            /\ thrown' = FALSE
       ELSE /\ frame' = Done
            /\ ret' = ThrowV
            /\ thrown' = TRUE
  /\ UNCHANGED << heap, root, cur, list, inserted, spliced, out >>

\* the head of the next pass, or return l; the swaps reach the driver's
\* array as long as A is that array
MinFree4While ==
  /\ frame.pc = "while"
  /\ LET f == minFree4WhileStep(frame)
     IN /\ frame' = IF f.pc = "if" THEN f ELSE Done
        /\ ret' = IF f.pc = "return" THEN Num(f.l) ELSE ret
        /\ list' = IF f.pc = "if" /\ ~f.own THEN f.A ELSE list
  /\ UNCHANGED << heap, root, cur, inserted, spliced, op, arg, out, thrown,
                  pre >>

\* the if statement that ends the pass
MinFree4If ==
  /\ frame.pc = "if"
  /\ frame' = minFree4IfStep(frame)
  /\ UNCHANGED << heap, root, cur, list, inserted, spliced, op, arg, ret,
                  out, thrown, pre >>

InitSteps ==
  /\ heap = << >>
  /\ root = Null
  /\ cur = [h |-> << >>, t |-> Null]
  /\ list \in IdLists \cup {NotArray}
  /\ inserted = << >>
  /\ spliced = FALSE
  /\ op = "none"
  /\ arg = NoArg
  /\ ret = UndefV
  /\ out = << >>
  /\ thrown = FALSE
  /\ pre = [heap |-> << >>, root |-> Null, built |-> TRUE]
  /\ frame = Idle

NextSteps ==
  \/ MinFree3Call
  \/ MinFree3Search
  \/ MinFree4Call
  \/ MinFree4While
  \/ MinFree4If

\* A call that has started keeps running: JavaScript runs it to
\* completion on its one thread.
SpecSteps ==
  /\ InitSteps
  /\ [][NextSteps]_vars
  /\ WF_vars(MinFree3Search)
  /\ WF_vars(MinFree4While)
  /\ WF_vars(MinFree4If)

\* The driver asks for the n-th number.
\* the largest n of the test script
TestedN == 10000

\* the functions read nothing but n: a second call reaches nothing that
\* the first does not
NumberCall(name, n, v) ==
  /\ Running
  /\ AfterChange
  /\ Call(name, [n |-> n])
  /\ ret' = v
  /\ thrown' = (v = ThrowV)
  /\ UNCHANGED << heap, root, cur, list, inserted, spliced, out, frame >>

\* getNumber1 tries every integer up to its result and getNumber2 scans
\* its queue for every new element; the driver calls them for n up to
\* MaxN, and getNumber3 also for TestedN
GetNumber1(n) ==
  /\ n <= MaxN
  /\ NumberCall("getNumber1", n, getNumber1(n))

GetNumber2(n) ==
  /\ n <= MaxN
  /\ NumberCall("getNumber2", n, getNumber2(n))

GetNumber3(n) == NumberCall("getNumber3", n, getNumber3(n))

NumberInputs == {NotNumber} \cup 0..MaxN \cup {TestedN}

NextNumber ==
  \/ \E n \in NumberInputs : GetNumber1(n)
  \/ \E n \in NumberInputs : GetNumber2(n)
  \/ \E n \in NumberInputs : GetNumber3(n)

SpecNumber == Init /\ [][NextNumber]_vars

\* ====================================================== properties
\* Notions the properties are stated in.

KeysOf(h, T) == { h[n].key : n \in NodesOf(h, T) }

\* no two nodes of the tree hold the same key
DistinctKeys(h, T) == Cardinality(KeysOf(h, T)) = Cardinality(NodesOf(h, T))

DistinctSeq(s) == \A i, j \in 1..Len(s) : i # j => s[i] # s[j]

BSTInvariant(h, T) ==
  \A n \in NodesOf(h, T) :
    /\ \A m \in NodesOf(h, h[n].left) : h[m].key < h[n].key
    /\ \A m \in NodesOf(h, h[n].right) : h[m].key > h[n].key

ParentsConsistent(h, T) ==
  /\ T # Null => h[T].parent = Null
  /\ \A n \in NodesOf(h, T) :
       /\ h[n].left # Null => h[h[n].left].parent = n
       /\ h[n].right # Null => h[h[n].right].parent = n

IsSorted(s) == \A i \in 1..(Len(s) - 1) : s[i] <= s[i + 1]

Occurs(s, k) == Cardinality({ i \in 1..Len(s) : s[i] = k })

\* s is t sorted ascending
SortedOf(s, t) ==
  /\ IsSorted(s)
  /\ Len(s) = Len(t)
  /\ \A k \in Keys : Occurs(s, k) = Occurs(t, k)

Without(s, k) == SelectSeq(s, LAMBDA e : e # k)

\* shape and keys of a tree, without object identity
RECURSIVE Shape(_, _)
Shape(h, T) ==
  IF T = Null THEN << >>
  ELSE << Shape(h, h[T].left), h[T].key, Shape(h, h[T].right) >>

\* foldL(insert, T, X): insert x1, then x2, ..., then xn
RECURSIVE FoldLInsert(_, _, _)
FoldLInsert(h, T, X) ==
  IF Len(X) = 0 THEN [h |-> h, t |-> T]
  ELSE LET r == insert(h, T, Head(X)) IN FoldLInsert(r.h, r.t, Tail(X))

\* the node holding the smallest key greater than x's, or Null
SuccessorOf(h, T, x) ==
  LET G == { n \in NodesOf(h, T) : h[n].key > h[x].key } IN
  IF G = {} THEN Null
  ELSE CHOOSE n \in G : \A m \in G : h[n].key <= h[m].key

\* the node holding the largest key smaller than x's, or Null
PredecessorOf(h, T, x) ==
  LET S == { n \in NodesOf(h, T) : h[n].key < h[x].key } IN
  IF S = {} THEN Null
  ELSE CHOOSE n \in S : \A m \in S : h[n].key >= h[m].key

\* the last call was made on a tree built by inserting pairwise distinct keys
OnDistinctBuiltTree == pre.built /\ DistinctKeys(pre.heap, pre.root)

\* ---------------------------------------------------------------- C1
\* C1: after every insert(T, k) with a new numeric key and every
\* deleteNode(T, x) with a node x of the tree, the call has returned
\* normally and every node of the returned tree has a parent reference
\* equal to its structural parent (the root's parent is absent).
C1_ParentLinksConsistent ==
  ( /\ op \in {"insert", "deleteNode"}
    /\ DistinctKeys(pre.heap, pre.root)
    /\ op = "insert" => arg.key \in Keys \ KeysOf(pre.heap, pre.root) )
  => ~thrown /\ ParentsConsistent(heap, root)

\* ---------------------------------------------------------------- C2
\* C2: after each insert of a sequence of pairwise distinct keys into an
\* initially empty tree, every key in a node's left subtree is strictly
\* less than the node's key and every key in its right subtree is
\* strictly greater.
C2_InsertKeepsBST ==
  (op = "insert" /\ ~thrown /\ ~spliced /\ DistinctSeq(inserted))
  => BSTInvariant(heap, root)

\* a fourth distinct key has just been inserted under a root that has
\* both children
C2_Witness ==
  /\ op = "insert" /\ ~thrown /\ ~spliced /\ DistinctSeq(inserted)
  /\ Len(inserted) >= 4
  /\ heap[root].left # Null /\ heap[root].right # Null

\* ---------------------------------------------------------------- C3
\* C3: deleteNode(T, x) on a node x with two children returns a tree
\* whose in-order key sequence is T's without x's key; x keeps its parent
\* and its left child and holds the key that was the minimum of its
\* right subtree.
C3_TwoChildrenDelete ==
  ( /\ op = "deleteNode" /\ arg.node # Null
    /\ OnDistinctBuiltTree
    /\ pre.heap[arg.node].left # Null
    /\ pre.heap[arg.node].right # Null )
  => /\ ~thrown
     /\ toList(heap, root)
          = Without(toList(pre.heap, pre.root), pre.heap[arg.node].key)
     /\ heap[arg.node].parent = pre.heap[arg.node].parent
     /\ heap[arg.node].left = pre.heap[arg.node].left
     /\ Num(heap[arg.node].key) = min(pre.heap, pre.heap[arg.node].right)

\* ---------------------------------------------------------------- C4
\* C4: for every node x that has a successor, pred applied to what
\* succ(x) returned gives the node x itself.
C4_PredOfSucc ==
  ( /\ op = "succ" /\ OnDistinctBuiltTree
    /\ SuccessorOf(heap, root, arg.node) # Null )
  => pred(heap, ret) = Ref(arg.node)

\* ---------------------------------------------------------------- C5
\* C5: succ(x) returns the node holding the smallest key greater than
\* x.key, or absent when there is none; pred(x) returns the node holding
\* the largest key smaller than x.key, or absent.
C5_SuccPredReturnNode ==
  /\ (op = "succ" /\ OnDistinctBuiltTree)
       => ret = Ref(SuccessorOf(heap, root, arg.node))
  /\ (op = "pred" /\ OnDistinctBuiltTree)
       => ret = Ref(PredecessorOf(heap, root, arg.node))

\* ---------------------------------------------------------------- C6
\* C6: on a tree T of pairwise distinct keys, deleteValue(T, k) returns
\* normally; when k occurs in T the result has one node less, does not
\* contain k, contains every other key of T and satisfies the BST
\* invariant; when k does not occur the result has T's in-order sequence.
C6_DeleteValue ==
  (op = "deleteValue" /\ OnDistinctBuiltTree)
  => /\ ~thrown
     /\ LET T == pre.root
            R == Store(ret)
            k == arg.key
        IN IF k \in KeysOf(pre.heap, T)
             THEN /\ Cardinality(NodesOf(heap, R))
                       = Cardinality(NodesOf(pre.heap, T)) - 1
                  /\ KeysOf(heap, R) = KeysOf(pre.heap, T) \ {k}
                  /\ BSTInvariant(heap, R)
             ELSE toList(heap, R) = toList(pre.heap, T)

\* the deleted key sat in a node with two children whose right subtree
\* has its minimum below the right child
C6_Witness ==
  /\ op = "deleteValue" /\ OnDistinctBuiltTree /\ ~thrown
  /\ \E n \in NodesOf(pre.heap, pre.root) :
       /\ pre.heap[n].key = arg.key
       /\ pre.heap[n].left # Null
       /\ pre.heap[n].right # Null
       /\ pre.heap[pre.heap[n].right].left # Null

\* ---------------------------------------------------------------- C7
\* C7: toList(fromList(X)) is X sorted ascending, duplicates kept; for
\* the empty array fromList returns the empty tree and toList the empty
\* list.
C7_TreeSort ==
  (op = "fromList" /\ isArray(arg.list))
  => /\ ~thrown
     /\ SortedOf(toList(heap, Store(ret)), arg.list)
     /\ Len(arg.list) = 0 => (ret = NullV /\ toList(heap, Store(ret)) = << >>)

\* an unsorted array with a repeated value went through fromList
C7_Witness ==
  /\ op = "fromList" /\ ~thrown
  /\ Len(arg.list) >= 3
  /\ arg.list[1] > arg.list[2]
  /\ arg.list[1] = arg.list[3]

\* ---------------------------------------------------------------- C8
\* C8: on a tree built by inserting a sequence of keys, inOrderWalk calls
\* the visitor once per inserted key, in ascending key order, and the
\* keys it passes are toList of the same tree, element for element.
C8_InOrderWalk ==
  (op = "inOrderWalk" /\ arg.fn = Callable /\ ~spliced)
  => /\ ~thrown
     /\ SortedOf(out, inserted)
     /\ out = toList(heap, root)

\* the walk ran over a tree built from an unsorted sequence with a
\* repeated key
C8_Witness ==
  /\ op = "inOrderWalk" /\ arg.fn = Callable /\ ~spliced /\ ~thrown
  /\ Len(inserted) >= 3
  /\ inserted[1] > inserted[2]
  /\ inserted[1] = inserted[3]
  /\ Len(out) = Len(inserted)

\* ---------------------------------------------------------------- C9
\* C9: fromList(X) returns the tree that inserting x1, then x2, ..., then
\* xn into the empty tree gives (same shape, same key at every position);
\* for non-empty X its root holds x1.
C9_FromListIsFoldL ==
  (op = "fromList" /\ ~thrown)
  => /\ LET f == FoldLInsert(<< >>, Null, arg.list)
        IN Shape(heap, Store(ret)) = Shape(f.h, f.t)
     /\ Len(arg.list) > 0 => heap[Store(ret)].key = arg.list[1]

\* --------------------------------------------------------------- C10
\* C10: lookup(T, k) returns a node of T whose key is k exactly when k
\* occurs in the in-order sequence of T, and absent otherwise; on the
\* empty tree it returns absent.
C10_Lookup ==
  (op = "lookup" /\ pre.built)
  => LET present == Occurs(toList(heap, root), arg.key) > 0
     IN /\ present => ( /\ ret.t = "node"
                        /\ ret.v \in NodesOf(heap, root)
                        /\ heap[ret.v].key = arg.key )
        /\ ~present => ret = NullV
        /\ root = Null => ret = NullV

\* lookup found its key two levels below the root
C10_Witness ==
  /\ op = "lookup" /\ pre.built
  /\ ret.t = "node"
  /\ ret.v # root
  /\ heap[ret.v].parent # root

\* --------------------------------------------------------------- C11
\* C11: the recursive lookup(T, x) and the loop search(T, x) return the
\* same thing for every tree T, the empty tree included, and every x:
\* the same node object, or both absent.
C11_LookupEqualsSearch ==
  /\ op = "lookup" => ret = search(heap, root, arg.key)
  /\ op = "search" => ret = lookup(heap, root, arg.key)
  /\ op \in {"lookup", "search"} => ret.t \in {"node", "null"}

\* search returned a node below the root of a tree that holds its key
\* twice, after a node was spliced out
C11_Witness ==
  /\ op = "search" /\ spliced
  /\ ret.t = "node" /\ ret.v # root
  /\ Occurs(toList(heap, root), arg.key) = 2
\* --------------------------------------------------------------- C12
\* x holds the largest / the smallest key of the tree
HoldsMax(h, T, x) == \A n \in NodesOf(h, T) : h[n].key <= h[x].key
HoldsMin(h, T, x) == \A n \in NodesOf(h, T) : h[n].key >= h[x].key

\* C12 as stated: for every non-empty tree built by insert, succ of a
\* node holding the maximum key returns absent and pred of a node holding
\* the minimum key returns absent.
C12_ExtremesHaveNone ==
  /\ (op = "succ" /\ pre.built /\ HoldsMax(heap, root, arg.node))
       => ret = NullV
  /\ (op = "pred" /\ pre.built /\ HoldsMin(heap, root, arg.node))
       => ret = NullV

\* C12 amended: for every non-empty tree built by inserting pairwise
\* distinct keys, succ of the node holding the maximum key returns absent
\* (null: no error, neither a node nor a key) and pred of the node
\* holding the minimum key returns absent.
C12_ExtremesHaveNoneDistinct ==
  /\ (op = "succ" /\ OnDistinctBuiltTree /\ HoldsMax(heap, root, arg.node))
       => ret = NullV
  /\ (op = "pred" /\ OnDistinctBuiltTree /\ HoldsMin(heap, root, arg.node))
       => ret = NullV

\* succ was called on the maximum node of a tree of distinct keys, two
\* right links below the root, so the loop climbed twice
C12_Witness ==
  /\ op = "succ" /\ OnDistinctBuiltTree /\ HoldsMax(heap, root, arg.node)
  /\ heap[arg.node].parent # Null
  /\ heap[heap[arg.node].parent].parent # Null
  /\ heap[root].left # Null
\* --------------------------------------------------------------- C13
\* C13: constructing a Node with a non-numeric key fails at once with a
\* TypeError and creates nothing; insert(T, k) with a non-numeric k
\* throws TypeError before any structural change: after the call the
\* tree has the same nodes, keys, child links and parent links as before.
C13_NonNumericKeyRejected ==
  /\ \A l, r \in 0..Len(heap) :
       Node(heap, NotNumber, l, r) = [h |-> heap, t |-> Null, thrown |-> TRUE]
  /\ (op = "insert" /\ arg.key = NotNumber)
       => /\ thrown /\ ret = ThrowV
          /\ heap = pre.heap
          /\ root = pre.root

\* insert was called with a non-numeric key on a tree of three nodes
C13_Witness ==
  /\ op = "insert" /\ arg.key = NotNumber /\ thrown
  /\ Cardinality(NodesOf(heap, root)) >= 3
\* --------------------------------------------------------------- C14
\* C14: whenever insert, deleteValue or deleteNode throws on a tree built
\* by insert, the tree it was called on has the same nodes, the same key
\* in every node and the same left, right and parent links as before the
\* call.
C14_NoPartialFailure ==
  (op \in {"insert", "deleteValue", "deleteNode"} /\ thrown /\ pre.built)
  => /\ root = pre.root
     /\ SubSeq(heap, 1, Len(pre.heap)) = pre.heap
\* --------------------------------------------------------------- C15
\* C15: inOrderWalk(T, fn) with a fn that is not callable throws
\* TypeError before any element is visited, for every tree T, the empty
\* tree included: no key of T is passed on and T is unchanged.
C15_WalkRejectsNonCallable ==
  (op = "inOrderWalk" /\ arg.fn = NotCallable)
  => /\ thrown /\ ret = ThrowV
     /\ out = << >>
     /\ heap = pre.heap /\ root = pre.root

\* the walk was called with a non-callable fn on a tree of three nodes
C15_Witness ==
  /\ op = "inOrderWalk" /\ arg.fn = NotCallable /\ thrown
  /\ Cardinality(NodesOf(heap, root)) >= 3
\* --------------------------------------------------------------- C16
\* C16: deleteValue(T, k) does not change its input: for every tree T and
\* every key k, present or absent, every node of T has the same key,
\* left, right and parent after the call as before, so the in-order
\* sequence of T is unchanged and still contains k if it did.
C16_DeleteValueKeepsInput ==
  op = "deleteValue"
  => /\ root = pre.root
     /\ SubSeq(heap, 1, Len(pre.heap)) = pre.heap
     /\ toList(heap, root) = toList(pre.heap, pre.root)
     /\ Occurs(toList(heap, root), arg.key)
          = Occurs(toList(pre.heap, pre.root), arg.key)

\* deleteValue removed a key held by a node with two children below the
\* root, and returned a tree other than its input
C16_Witness ==
  /\ op = "deleteValue" /\ ~thrown
  /\ ret.t = "node" /\ ret.v # root
  /\ \E n \in NodesOf(pre.heap, pre.root) :
       /\ n # pre.root
       /\ pre.heap[n].key = arg.key
       /\ pre.heap[n].left # Null
       /\ pre.heap[n].right # Null
\* --------------------------------------------------------------- C17
\* the nodes of the tree in in-order
RECURSIVE InOrderNodes(_, _)
InOrderNodes(h, T) ==
  IF T = Null THEN << >>
  ELSE InOrderNodes(h, h[T].left) \o << T >> \o InOrderNodes(h, h[T].right)

\* C17: for a tree T built by insert and a node x of T with at most one
\* child, deleteNode(T, x) splices x out: x's only child (or empty) takes
\* the left/right slot x had in its parent and gets that parent; the
\* in-order sequence of the result is T's without x, every other node
\* keeping its key; the returned root is T, or x's child (or the empty
\* tree) when x was the root.
C17_SpliceOut ==
  ( /\ op = "deleteNode" /\ arg.node # Null /\ pre.built
    /\ \/ pre.heap[arg.node].left = Null
       \/ pre.heap[arg.node].right = Null )
  => LET x == arg.node
         c == IF pre.heap[x].left = Null THEN pre.heap[x].right
              ELSE pre.heap[x].left
         p == pre.heap[x].parent
         order == InOrderNodes(heap, root)
     IN /\ ~thrown
        /\ p # Null =>
             IF pre.heap[p].left = x
               THEN heap[p].left = c /\ heap[p].right = pre.heap[p].right
               ELSE heap[p].right = c /\ heap[p].left = pre.heap[p].left
        /\ c # Null => heap[c].parent = p
        /\ order = SelectSeq(InOrderNodes(pre.heap, pre.root),
                             LAMBDA n : n # x)
        /\ \A i \in 1..Len(order) : heap[order[i]].key = pre.heap[order[i]].key
        /\ root = IF x = pre.root THEN c ELSE pre.root
        /\ ret = Ref(root)

\* the spliced node had one child and was the right child of a node that
\* also has a left child
C17_Witness ==
  /\ op = "deleteNode" /\ arg.node # Null /\ pre.built /\ ~thrown
  /\ pre.heap[arg.node].parent # Null
  /\ pre.heap[pre.heap[arg.node].parent].right = arg.node
  /\ pre.heap[pre.heap[arg.node].parent].left # Null
  /\ \/ pre.heap[arg.node].left # Null
     \/ pre.heap[arg.node].right # Null
  /\ \/ pre.heap[arg.node].left = Null
     \/ pre.heap[arg.node].right = Null
\* --------------------------------------------------------------- C18
\* C18: insert(T, k) with a key k that already occurs in T returns
\* normally and adds exactly one new node, holding k, in the right
\* subtree of the first node with key k met on the walk from the root;
\* toList of the result contains k once more than before.
C18_InsertExistingKey ==
  (op = "insert" /\ arg.key \in KeysOf(pre.heap, pre.root))
  => LET k == arg.key
         x == Len(heap)
         first == lookup(pre.heap, pre.root, k)
     IN /\ ~thrown
        /\ root = pre.root /\ ret = Ref(root)
        /\ x = Len(pre.heap) + 1
        /\ heap[x].key = k
        /\ NodesOf(heap, root) = NodesOf(pre.heap, pre.root) \cup {x}
        /\ \A n \in NodesOf(pre.heap, pre.root) : heap[n].key = pre.heap[n].key
        /\ first.t = "node"
        /\ x \in NodesOf(heap, heap[first.v].right)
        /\ Occurs(toList(heap, root), k)
             = Occurs(toList(pre.heap, pre.root), k) + 1

\* the key was already held by a node below the root that has a right
\* child, so the new node went deeper into that right subtree
C18_Witness ==
  /\ op = "insert" /\ arg.key \in KeysOf(pre.heap, pre.root) /\ ~thrown
  /\ LET first == lookup(pre.heap, pre.root, arg.key)
     IN /\ first.t = "node"
        /\ first.v # pre.root
        /\ pre.heap[first.v].right # Null
\* --------------------------------------------------------------- C19
\* the smallest non-negative integer that does not occur in A
SmallestFree(A) ==
  LET used == { A[j] : j \in 1..Len(A) }
  IN CHOOSE i \in 0..(Len(A) + 1) : i \notin used /\ \A j \in 0..(i - 1) : j \in used

\* C19: for every array A of pairwise distinct non-negative integers, the
\* empty array included, minFree1, minFree2, minFree3 and minFree4 each
\* return the smallest non-negative integer that does not occur in A,
\* which is at most the length of A; for the list of the test script
\* each returns 10.
C19_MinFree ==
  (op \in {"minFree1", "minFree2", "minFree3", "minFree4"} /\ isArray(arg.list))
  => /\ ~thrown
     /\ ret = Num(SmallestFree(arg.list))
     /\ ret.v <= Len(arg.list)
     /\ arg.list = TestList => ret = Num(10)

\* minFree4 has answered for the list of the test script
C19_Witness ==
  op = "minFree4" /\ arg.list = TestList /\ ret = Num(10)
\* --------------------------------------------------------------- C20
\* x is a positive integer whose only prime factors are 2, 3 and 5
RECURSIVE DivideOut(_, _)
DivideOut(x, k) ==
  IF x # Small(0) /\ Rem(x, k) = 0 THEN DivideOut(Quot(x, k), k) ELSE x

Regular(x) == DivideOut(DivideOut(DivideOut(x, 2), 3), 5) = Small(1)

\* how many of p, 2p, 4p, ... are at most x
RECURSIVE CountTwos(_, _)
CountTwos(p, x) ==
  IF Less(x, p) THEN 0 ELSE 1 + CountTwos(Times(2, p), x)

\* how many 2^a * 3^b * p (a, b >= 0) are at most x
RECURSIVE CountThrees(_, _)
CountThrees(p, x) ==
  IF Less(x, p) THEN 0 ELSE CountTwos(p, x) + CountThrees(Times(3, p), x)

\* how many 2^a * 3^b * 5^c * p (a, b, c >= 0) are at most x
RECURSIVE CountFives(_, _)
CountFives(p, x) ==
  IF Less(x, p) THEN 0 ELSE CountThrees(p, x) + CountFives(Times(5, p), x)

\* x is the n-th smallest positive integer with no prime factor but 2, 3, 5
NthRegular(x, n) == Regular(x) /\ CountFives(Small(1), x) = n

FirstRegular == << 1, 2, 3, 4, 5, 6, 8, 9, 10, 12, 15 >>

\* C20: for every integer n >= 1, getNumber1(n), getNumber2(n) and
\* getNumber3(n) each return the n-th smallest positive integer whose
\* only prime factors are 2, 3 and 5, 1 being the first (so all three
\* return the same value); n = 1..11 give 1,2,3,4,5,6,8,9,10,12,15.
C20_NthRegularNumber ==
  (op \in {"getNumber1", "getNumber2", "getNumber3"} /\ arg.n >= 1)
  => /\ ret.t = "number"
     /\ NthRegular(ret.v, arg.n)
     /\ arg.n <= Len(FirstRegular) => ret.v = Small(FirstRegular[arg.n])

\* --------------------------------------------------------------- C21
\* C21: after deleteNode(T, x) has spliced the node x out of the tree and
\* returned, x no longer holds its former key, and its left and right
\* fields reference no node of the remaining tree.
C21_SplicedNodeDestroyed ==
  (/\ op = "deleteNode" /\ ~thrown
   /\ arg.node # Null
   /\ (pre.heap[arg.node].left = Null \/ pre.heap[arg.node].right = Null))
  => LET x == heap[arg.node]
         R == NodesOf(heap, root)
     IN /\ x.key # pre.heap[arg.node].key
        /\ x.left \notin R
        /\ x.right \notin R

\* --------------------------------------------------------------- C22
\* C22: a call fromList(X) on an array of numbers leaves X with length 0,
\* and a fromList call that follows a fromList call on the same array
\* returns the empty tree.
C22_FromListConsumes ==
  [][(op' = "fromList" /\ isArray(list))
     => /\ ~thrown'
        /\ list' = << >>
        /\ op = "fromList" => ret' = NullV]_vars

\* fromList was called again on an array from which an earlier call had
\* built a tree
C22_Witness ==
  /\ op = "fromList" /\ ~thrown
  /\ pre.root # Null
  /\ arg.list = << >>
  /\ list = << >>
  /\ ret = NullV

\* --------------------------------------------------------------- C23
\* a call of minFree3 or minFree4 is in progress
InProgress == frame.pc \in {"search", "while", "if"}

\* the last call has returned a number
Returned == frame.pc = "done" /\ ~thrown /\ ret.t = "number"

\* C23: minFree3(A) and minFree4(A) terminate and return a value for
\* every array A of non-negative integers, also when a value occurs in A
\* more than once.
C23_Terminate == InProgress ~> Returned

\* C23 as amended: minFree3(A) and minFree4(A) terminate and return a
\* value for every array A of pairwise distinct non-negative integers.
C23_TerminateDistinct ==
  (InProgress /\ DistinctSeq(arg.list)) ~> Returned

\* minFree4 returned from an array of three or more distinct IDs whose
\* smallest free ID is not 0
C23_Witness ==
  /\ op = "minFree4" /\ Returned
  /\ DistinctSeq(arg.list)
  /\ Len(arg.list) >= 3
  /\ ret.v >= 2
====
